---- MODULE Spec2Model ----
(***************************************************************************)
(* geo-ruler: the lane-batched polyline length kernel (simd/src/lib.rs)    *)
(* and the scalar ruler with its line interpolation iterator (src/lib.rs). *)
(*                                                                         *)
(* Numbers.  Angles in degrees are integers in units of 1/DEG degree,      *)
(* dimensionless reals and radians are fixed point with FP fractional      *)
(* units, lengths are integers in decametres.  The ratio arithmetic of     *)
(* the iterator is exact rational arithmetic extended with the IEEE-754    *)
(* values +inf, -inf and NaN; rounding of finite values is not modelled.   *)
(***************************************************************************)
EXTENDS Integers, Sequences, FiniteSets, TLC

\* ------------------------------------------------------------------------
\* Bounds of the model
\* ------------------------------------------------------------------------
MaxLen == 9        \* longest input sequence handed to length
MaxLanes == 4      \* widest lane count instantiated
MaxYield == 12     \* next() calls that yield a point before a run is cut

\* ------------------------------------------------------------------------
\* Fixed-point helpers
\* ------------------------------------------------------------------------
FP == 10000
DEG == 10

Abs(a) == IF a < 0 THEN -a ELSE a
Max(a, b) == IF a >= b THEN a ELSE b
Min(a, b) == IF a <= b THEN a ELSE b

\* Division rounding toward zero (Integers' \div floors)
Quot(a, b) == IF (a >= 0) = (b > 0) THEN Abs(a) \div Abs(b) ELSE -(Abs(a) \div Abs(b))

\* binary search for floor(sqrt(x)) in lo..hi
ISqrtB[x \in Nat, lo \in Nat, hi \in Nat] ==
    IF lo >= hi THEN lo
    ELSE LET mid == (lo + hi + 1) \div 2
         IN IF mid * mid <= x THEN ISqrtB[x, mid, hi] ELSE ISqrtB[x, lo, mid - 1]

\* floor(sqrt(x)) for 0 <= x < 2^31
ISqrt(x) == ISqrtB[x, 0, 46340]

\* sqrt(dx^2 + dy^2); large operands are scaled first, as a float's exponent does
HypotF[dx \in Int, dy \in Int] ==
    IF Max(Abs(dx), Abs(dy)) > 30000
    THEN 100 * HypotF[Quot(dx, 100), Quot(dy, 100)]
    ELSE ISqrt(dx * dx + dy * dy)
Hypot(dx, dy) == HypotF[dx, dy]

\* f32::to_radians on an angle in 1/DEG degrees, result in 1/FP radians
PI_FP == 31416
ToRadians(d) == Quot(d * PI_FP, 180 * DEG)

\* ------------------------------------------------------------------------
\* simd/src/lib.rs: constants, cos, coefs, distance
\* ------------------------------------------------------------------------
RE == 11132        \* 6_378_137f32.to_radians() metres per degree, in decametres
E2 == 67           \* 0.006_694_38 in 1/FP

COS_A0 == 10000
COS_A2 == -5000
COS_A4 == 417

\* sign lanes selected by the x > PI mask
CosSignAfterPi(gtPi) == IF gtPi THEN 1 ELSE -1

\* the reduction without its last step, the reflection about pi/2
CosReduce_NoReflect(x0) ==
    LET x1 == IF x0 < 0 THEN x0 + 2 * PI_FP ELSE x0
        gtPi == x1 > PI_FP
        x2 == IF gtPi THEN x1 - PI_FP ELSE x1
    IN [x |-> x2, sign |-> CosSignAfterPi(gtPi)]

\* cos<N>, one lane: the range reduction, giving the argument of the
\* polynomial and the sign
CosReduce(x0) ==
    LET x1 == IF x0 < 0 THEN x0 + 2 * PI_FP ELSE x0
        gtPi == x1 > PI_FP
        x2 == IF gtPi THEN x1 - PI_FP ELSE x1
        sign1 == CosSignAfterPi(gtPi)
        gtHalf == x2 > PI_FP \div 2
    IN [x |-> IF gtHalf THEN PI_FP - x2 ELSE x2,
        sign |-> IF gtHalf THEN -sign1 ELSE sign1]

\* cos<N>, one lane
Cos(x0) ==
    LET rd == CosReduce(x0)
        x_sq == Quot(rd.x * rd.x, FP)
    IN rd.sign * (COS_A0 + Quot(x_sq * (COS_A2 + Quot(x_sq * COS_A4, FP)), FP))

\* the body shared by coefs<N> and Ruler::coefs, given the cosine c (1/FP):
\* [kx, ky] in decametres per degree
CoefsOfCos(c, re, e2) ==
    LET w == Quot(FP * FP, FP - Quot(e2 * (FP - Quot(c * c, FP)), FP))
        k == Quot(ISqrt(w * FP) * re, FP)
    IN <<Quot(k * c, FP), Quot(Quot(k * w, FP) * (FP - e2), FP)>>

\* coefs<N>, one lane
Coefs(lat) == CoefsOfCos(Cos(ToRadians(lat)), RE, E2)

\* distance<N>: the latitude handed to coefs
DistanceLatitude(origin, destination) == origin[2]

\* distance<N>, one lane: origin and destination are <<lon, lat>>
Distance(origin, destination) ==
    LET kk == Coefs(DistanceLatitude(origin, destination))
        dx == Quot((destination[1] - origin[1]) * kk[1], DEG)
        dy == Quot((destination[2] - origin[2]) * kk[2], DEG)
    IN Hypot(dx, dy)

\* ------------------------------------------------------------------------
\* src/lib.rs: Ruler::coefs, coefs_avg, distance, point_at_ratio_between
\* ------------------------------------------------------------------------
WGS84_RE == 11132  \* 6_378_137 m, to_radians, in decametres per degree
WGS84_E2 == 67     \* 0.00669437999 in 1/FP

\* f64::cos for |x| <= pi/2 (x in 1/FP radians): Taylor series to x^8
StdCos(x) ==
    LET q == Quot(x * x, FP)
        t3 == FP - Quot(q, 56)
        t2 == FP - Quot(q * t3, 30 * FP)
        t1 == FP - Quot(q * t2, 12 * FP)
    IN FP - Quot(q * t1, 2 * FP)

\* Ruler::coefs; lat2 is twice the latitude (1/(2*DEG) degree), so that the
\* mean of two latitudes is exact
RulerCoefs(lat2) == CoefsOfCos(StdCos(Quot(lat2 * PI_FP, 360 * DEG)), WGS84_RE, WGS84_E2)

\* coefs_avg that takes the latitude of the origin
RulerCoefsAvg_OriginOnly(origin, destination) == RulerCoefs(origin + origin)

\* coefs_avg: twice the latitude handed to coefs, (a + b) / 2
CoefsAvgLat2(a, b) == a + b

\* Ruler::coefs_avg
RulerCoefsAvg(origin, destination) == RulerCoefs(CoefsAvgLat2(origin, destination))

\* Ruler::distance
RulerDistance(origin, destination) ==
    LET kk == RulerCoefsAvg(origin[2], destination[2])
        dx == Quot(destination[1] * kk[1] - origin[1] * kk[1], DEG)
        dy == Quot(destination[2] * kk[2] - origin[2] * kk[2], DEG)
    IN Hypot(dx, dy)

\* ------------------------------------------------------------------------
\* Floating-point values of the interpolation: exact rationals n/d (d > 0,
\* lowest terms) and the IEEE-754 specials
\* ------------------------------------------------------------------------
GCD[a \in Nat, b \in Nat] == IF b = 0 THEN a ELSE GCD[b, a % b]

FloatVal == [k : {"fin", "inf", "ninf", "nan", "f32"}, n : Int, d : Nat]

Fin(n, d) == [k |-> "fin", n |-> n \div GCD[Abs(n), d], d |-> d \div GCD[Abs(n), d]]
PosInf == [k |-> "inf", n |-> 0, d |-> 1]
NegInf == [k |-> "ninf", n |-> 0, d |-> 1]
NaN == [k |-> "nan", n |-> 0, d |-> 1]
Zero == [k |-> "fin", n |-> 0, d |-> 1]
One == [k |-> "fin", n |-> 1, d |-> 1]

\* An f32 in [0, 4) with at most 27 fraction bits: n is the value in units of
\* 2^-27. Sums of such values are rounded as f32 rounds them; comparisons
\* are exact, and products with them are taken on the exact value.
F32(n) == [k |-> "f32", n |-> n, d |-> 2 ^ 27]
AsFin(x) == IF x.k = "f32" THEN Fin(x.n, x.d) ELSE x
Units(x) == IF x.k = "f32" THEN x.n ELSE x.n * ((2 ^ 27) \div x.d)

\* round to nearest, ties to even, to the 24 significant bits of an f32
\* (v >= 0 in units of 2^-27)
RoundF32(v) ==
    LET q == IF v < 2 ^ 24 THEN 1 ELSE IF v < 2 ^ 25 THEN 2
             ELSE IF v < 2 ^ 26 THEN 4 ELSE IF v < 2 ^ 27 THEN 8
             ELSE IF v < 2 ^ 28 THEN 16 ELSE 32
        r == v % q
        down == v - r
    IN IF 2 * r < q THEN down
       ELSE IF 2 * r > q THEN down + q
       ELSE IF (down \div q) % 2 = 0 THEN down ELSE down + q

\* sign of a non-NaN value: -1, 0, 1
FSign(x) ==
    IF x.k = "inf" THEN 1 ELSE IF x.k = "ninf" THEN -1
    ELSE IF x.n > 0 THEN 1 ELSE IF x.n < 0 THEN -1 ELSE 0

\* a / b for two finite integers a and b >= 0
FDivInt(a, b) ==
    IF b = 0 THEN (IF a > 0 THEN PosInf ELSE IF a < 0 THEN NegInf ELSE NaN)
    ELSE Fin(a, b)

FNeg[x \in FloatVal] ==
    IF x.k = "inf" THEN NegInf ELSE IF x.k = "ninf" THEN PosInf
    ELSE IF x.k = "nan" THEN NaN ELSE [x EXCEPT !.n = -x.n]

FAdd[x \in FloatVal, y \in FloatVal] ==
    IF x.k = "nan" \/ y.k = "nan" THEN NaN
    ELSE IF x.k = "f32" \/ y.k = "f32" THEN F32(RoundF32(Units(x) + Units(y)))
    ELSE IF x.k = "fin" /\ y.k = "fin" THEN Fin(x.n * y.d + y.n * x.d, x.d * y.d)
    ELSE IF x.k = "fin" THEN y
    ELSE IF y.k = "fin" THEN x
    ELSE IF x.k = y.k THEN x ELSE NaN

FSub[x \in FloatVal, y \in FloatVal] == FAdd[x, FNeg[y]]

FMul[x \in FloatVal, y \in FloatVal] ==
    IF x.k = "nan" \/ y.k = "nan" THEN NaN
    ELSE IF x.k = "f32" \/ y.k = "f32" THEN FMul[AsFin(x), AsFin(y)]
    ELSE IF x.k = "fin" /\ y.k = "fin" THEN Fin(x.n * y.n, x.d * y.d)
    ELSE IF FSign(x) * FSign(y) = 0 THEN NaN
    ELSE IF FSign(x) * FSign(y) > 0 THEN PosInf ELSE NegInf

\* x < y; false when either is NaN
FLt[x \in FloatVal, y \in FloatVal] ==
    IF x.k = "nan" \/ y.k = "nan" THEN FALSE
    ELSE IF x.k = "f32" \/ y.k = "f32" THEN Units(x) < Units(y)
    ELSE IF x.k = "fin" /\ y.k = "fin" THEN x.n * y.d < y.n * x.d
    ELSE IF x.k = y.k THEN FALSE
    ELSE x.k = "ninf" \/ y.k = "inf"

\* a point with integer coordinates (1/DEG degree) as a Point<F>
FPoint(p) == <<Fin(p[1], 1), Fin(p[2], 1)>>

\* point_at_ratio_between measured from end
PointAtRatioBetween_FromEnd(start, end, ratio_from_start) ==
    <<FAdd[end[1], FMul[FSub[start[1], end[1]], ratio_from_start]],
      FAdd[end[2], FMul[FSub[start[2], end[2]], ratio_from_start]]>>

\* Ruler::point_at_ratio_between
PointAtRatioBetween(start, end, ratio_from_start) ==
    <<FAdd[start[1], FMul[FSub[end[1], start[1]], ratio_from_start]],
      FAdd[start[2], FMul[FSub[end[2], start[2]], ratio_from_start]]>>

\* ------------------------------------------------------------------------
\* src/math.rs (module atan): the polynomial atan2 tiers, and f64::atan2.
\* Angles are integers in 1/AS radian; a result is [nan, v].
\* ------------------------------------------------------------------------
AS == 1000000

Rad(v) == [nan |-> FALSE, v |-> v]
RadNaN == [nan |-> TRUE, v |-> 0]

\* a * b for two values in 1/AS, by halves so that no product overflows
MulA(a, b) ==
    LET ah == Quot(a, 1000)
        al == a - 1000 * ah
        bh == Quot(b, 1000)
        bl == b - 1000 * bh
    IN ah * bh + Quot(ah * bl + al * bh + Quot(al * bl, 1000), 1000)

\* the exponent of a float: both operands of a quotient are scaled alike
\* until they fit MaxOperand
MaxOperand == 1000
ScaleF[y \in Int, x \in Int] ==
    IF Max(Abs(y), Abs(x)) > MaxOperand THEN ScaleF[Quot(y, 10), Quot(x, 10)]
    ELSE <<y, x>>

\* a / b in 1/AS for 0 <= |a| <= b <= 2 * MaxOperand, b > 0
DivA(a, b) == Quot(a * AS, b)

FRAC_PI_4 == 785398
FRAC_PI_2 == 1570796
PI_A == 3141593

DEG3_A1 == 981700
DEG3_A3 == 196300

\* atan2 under feature atan2_deg3, on operands already scaled
Atan2Deg3S(y, x) ==
    LET abs_y == Abs(y)
        den == IF x < 0 THEN abs_y - x ELSE x + abs_y
        num == IF x < 0 THEN x + abs_y ELSE x - abs_y
        a == IF x < 0 THEN FRAC_PI_4 + FRAC_PI_4 + FRAC_PI_4 ELSE FRAC_PI_4
    IN IF den = 0 THEN RadNaN      \* 0 / 0
       ELSE LET r == DivA(num, den)
                res == a + MulA(MulA(MulA(DEG3_A3, r), r) - DEG3_A1, r)
            IN Rad(IF y < 0 THEN -res ELSE res)

\* atan2 under feature atan2_deg3
Atan2Deg3(y, x) == Atan2Deg3S(ScaleF[y, x][1], ScaleF[y, x][2])

DEG5_A1 == 995354
DEG5_A3 == -288679
DEG5_A5 == 79331

\* raw_atan_5 cut after its first term
RawAtan5_Linear(x) == x

\* raw_atan_5
RawAtan5(x) ==
    LET x_sq == MulA(x, x)
    IN MulA(x, DEG5_A1 + MulA(x_sq, DEG5_A3 + MulA(x_sq, DEG5_A5)))

\* atan2 under feature atan2_deg5, on operands already scaled
Atan2Deg5S(y, x) ==
    LET abs_y == Abs(y)
        abs_x == Abs(x)
    IN IF abs_x = 0 /\ abs_y = 0 THEN RadNaN      \* raw_atan_5(0 / 0)
       ELSE LET res0 == IF abs_x < abs_y
                        THEN FRAC_PI_2 - RawAtan5(DivA(abs_x, abs_y))
                        ELSE RawAtan5(DivA(abs_y, abs_x))
                res1 == IF x < 0 THEN PI_A - res0 ELSE res0
            IN Rad(IF y < 0 THEN -res1 ELSE res1)

\* atan2 under feature atan2_deg5
Atan2Deg5(y, x) == Atan2Deg5S(ScaleF[y, x][1], ScaleF[y, x][2])

\* atan of the quarters 0, 1/4, 1/2, 3/4, 1
AtanQuarter == <<0, 244979, 463648, 643501, 785398>>

\* f64::atan on 0 <= z <= 1 (1/AS): atan c + atan((z - c) / (1 + z c)) with
\* c the nearest quarter, the second term by its Taylor series to t^7
StdAtan(z) ==
    LET q == (4 * z + AS \div 2) \div AS
        c == q * (AS \div 4)
        t == Quot((z - c) * 10000, Quot(AS + MulA(z, c), 100))
        t2 == MulA(t, t)
        series == t - MulA(t, Quot(t2, 3) - MulA(t2, Quot(t2, 5) - MulA(t2, Quot(t2, 7))))
    IN AtanQuarter[q + 1] + series

\* f64::atan2 (the sign of a zero operand is not modelled)
StdAtan2S(y, x) ==
    LET abs_y == Abs(y)
        abs_x == Abs(x)
        res0 == IF abs_x = 0 /\ abs_y = 0 THEN 0
                ELSE IF abs_x < abs_y THEN FRAC_PI_2 - StdAtan(DivA(abs_x, abs_y))
                ELSE StdAtan(DivA(abs_y, abs_x))
        res1 == IF x < 0 THEN PI_A - res0 ELSE res0
    IN Rad(IF y < 0 THEN -res1 ELSE res1)
StdAtan2(y, x) == StdAtan2S(ScaleF[y, x][1], ScaleF[y, x][2])

\* f64::to_degrees of an angle in 1/AS radian: 1/MDEG degree
MDEG == 1000
ToDegrees(a) ==
    LET whole == (Abs(a.v) * 180) \div PI_A
        part == ((Abs(a.v) * 180 - whole * PI_A) * (MDEG \div 2)) \div (PI_A \div 2)
        d == whole * MDEG + part
    IN IF a.nan THEN RadNaN ELSE Rad(IF a.v < 0 THEN -d ELSE d)

\* ------------------------------------------------------------------------
\* build.rs and the cfg attributes: which atan2 bearing is compiled with
\* ------------------------------------------------------------------------
Features == {"atan2_deg3", "atan2_deg5"}

\* build.rs main
BuildScript(features) ==
    IF "atan2_deg3" \in features /\ "atan2_deg5" \in features THEN "aborted" ELSE "built"

\* a selection that ignores the features
Strategy_AlwaysExact(features) == "exact"

\* the atan2 that the cfg attributes of bearing and of module atan leave
Strategy(features) ==
    IF features = {} THEN "exact"
    ELSE IF features = {"atan2_deg3"} THEN "deg3"
    ELSE IF features = {"atan2_deg5"} THEN "deg5"
    ELSE "none"

Atan2Of(strategy, y, x) ==
    IF strategy = "deg3" THEN Atan2Deg3(y, x)
    ELSE IF strategy = "deg5" THEN Atan2Deg5(y, x)
    ELSE StdAtan2(y, x)

\* Ruler::bearing: <<dx, dy>>
BearingDeltas(origin, destination) ==
    LET kk == RulerCoefsAvg(origin[2], destination[2])
    IN <<Quot((destination[1] - origin[1]) * kk[1], DEG),
         Quot((destination[2] - origin[2]) * kk[2], DEG)>>

\* Ruler::bearing, in 1/MDEG degree
RulerBearing(strategy, origin, destination) ==
    LET dd == BearingDeltas(origin, destination)
    IN ToDegrees(Atan2Of(strategy, dd[1], dd[2]))

\* ------------------------------------------------------------------------
\* src/lib.rs: the constructors of Ruler; re in kilometres
\* ------------------------------------------------------------------------
RulerWGS84 == [re |-> Fin(6378137, 1000), e2 |-> Fin(WGS84_E2, FP)]

\* Default::default
RulerDefault == RulerWGS84

\* Ruler::new
RulerNew(major, minor) ==
    [re |-> Fin(major, 1), e2 |-> FSub[One, FDivInt(minor * minor, major * major)]]

\* ------------------------------------------------------------------------
\* src/lib.rs: destination and distance on points in 1/UDEG degree, lengths
\* in decimetres, bearings in whole degrees
\* ------------------------------------------------------------------------
UDEG == 1000000

\* f64::cos of an angle in whole degrees, 0 <= d < 360 (1/FP)
CosDeg(d) ==
    IF d <= 90 THEN StdCos(Quot(d * PI_FP, 180))
    ELSE IF d <= 180 THEN -StdCos(Quot((180 - d) * PI_FP, 180))
    ELSE IF d <= 270 THEN -StdCos(Quot((d - 180) * PI_FP, 180))
    ELSE StdCos(Quot((360 - d) * PI_FP, 180))

\* f64::sin_cos of bearing.to_radians()
SinCos(bearing) == <<CosDeg((bearing + 270) % 360), CosDeg(bearing)>>

\* Ruler::coefs of WGS84 at a latitude in 1/UDEG degree
RulerCoefsU(lat) ==
    CoefsOfCos(StdCos(Quot(Quot(lat, 1000) * PI_FP, 180 * 1000)), WGS84_RE, WGS84_E2)

\* destination that scales longitude and latitude with each other's coefficient
RulerDestination_SwappedCoefs(origin, bearing, distance) ==
    LET kk == RulerCoefsU(origin[2])
        sc == SinCos(bearing)
    IN <<origin[1] + Quot(distance * sc[1], kk[2]),
         origin[2] + Quot(distance * sc[2], kk[1])>>

\* Ruler::destination
RulerDestination(origin, bearing, distance) ==
    LET kk == RulerCoefsU(origin[2])
        sc == SinCos(bearing)
    IN <<origin[1] + Quot(distance * sc[1], kk[1]),
         origin[2] + Quot(distance * sc[2], kk[2])>>

\* Ruler::distance on points in 1/UDEG degree (the two products of each
\* difference are taken after the subtraction, as f64 has digits to spare)
RulerDistanceU(origin, destination) ==
    LET kk == RulerCoefsU(Quot(origin[2] + destination[2], 2))
        dx == Quot((destination[1] - origin[1]) * kk[1], 10000)
        dy == Quot((destination[2] - origin[2]) * kk[2], 10000)
    IN Hypot(dx, dy)

\* a point in 1/DEG degree, in 1/UDEG degree
ToU(p) == <<p[1] * (UDEG \div DEG), p[2] * (UDEG \div DEG)>>

\* Ruler::destination for a bearing as bearing returns it (1/MDEG degree,
\* any sign, or NaN): sin_cos has period 360 degrees, and a NaN bearing
\* makes both coordinates NaN
DestinationOfBearing(origin, bearing, distance) ==
    IF bearing.nan THEN [nan |-> TRUE, p |-> <<0, 0>>]
    ELSE [nan |-> FALSE,
          p |-> RulerDestination(origin, ((bearing.v + MDEG \div 2) \div MDEG) % 360,
                                 distance)]

\* point_at_distance_between with the bearing taken from end to start
PointAtDistanceBetween_Reversed(strategy, start, end, distance_from_start) ==
    LET bearing == RulerBearing(strategy, end, start)
    IN DestinationOfBearing(ToU(start), bearing, distance_from_start)

\* Ruler::point_at_distance_between
PointAtDistanceBetween(strategy, start, end, distance_from_start) ==
    LET bearing == RulerBearing(strategy, start, end)
    IN DestinationOfBearing(ToU(start), bearing, distance_from_start)

\* ------------------------------------------------------------------------
\* src/lib.rs: LinePointInterpolator
\* ------------------------------------------------------------------------
NoItem == [some |-> FALSE, p |-> <<Zero, Zero>>, kind |-> "none"]
SomeItem(pt, kd) == [some |-> TRUE, p |-> pt, kind |-> kd]

\* new with the first offset taken from step whatever include_ends says
LinePointInterpolatorNew_SkipStart(start, end, step, include_ends) ==
    [created |-> TRUE, start |-> start, end |-> end, include_last |-> include_ends,
     offset |-> step, step |-> step]

\* LinePointInterpolator::new
LinePointInterpolatorNew(start, end, step, include_ends) ==
    [created |-> TRUE, start |-> start, end |-> end, include_last |-> include_ends,
     offset |-> IF include_ends THEN Zero ELSE step, step |-> step]

\* advance that moves the offset by two steps
Advance_DoubleStep(self) ==
    [it |-> [self EXCEPT !.offset = FAdd[FAdd[self.offset, self.step], self.step]],
     item |-> SomeItem(PointAtRatioBetween(self.start, self.end, self.offset), "interp")]

\* LinePointInterpolator::advance: the iterator after the call and the item
Advance(self) ==
    [it |-> [self EXCEPT !.offset = FAdd[self.offset, self.step]],
     item |-> SomeItem(PointAtRatioBetween(self.start, self.end, self.offset), "interp")]

\* stop that leaves include_last set
Stop_KeepsFlag(self) ==
    IF self.include_last
    THEN [it |-> self, item |-> SomeItem(self.end, "end")]
    ELSE [it |-> self, item |-> NoItem]

\* LinePointInterpolator::stop
Stop(self) ==
    IF self.include_last
    THEN [it |-> [self EXCEPT !.include_last = FALSE], item |-> SomeItem(self.end, "end")]
    ELSE [it |-> self, item |-> NoItem]

\* Iterator::next
IteratorNextOf(self) == IF FLt[self.offset, One] THEN Advance(self) ELSE Stop(self)

\* points_along_line that always asks for the ends
PointsAlongLineOf_EndsAlways(start, end, max_distance, include_ends) ==
    LET distance == RulerDistance(start, end)
        step == FDivInt(max_distance, distance)
    IN LinePointInterpolatorNew(FPoint(start), FPoint(end), step, TRUE)

\* Ruler::points_along_line: start and end have integer coordinates
PointsAlongLineOf(start, end, max_distance, include_ends) ==
    LET distance == RulerDistance(start, end)
        step == FDivInt(max_distance, distance)
    IN LinePointInterpolatorNew(FPoint(start), FPoint(end), step, include_ends)

\* next() on iterator `who` of a pair whose two iterators share one state
NextOfPair_Shared(pair, who) ==
    LET r == IteratorNextOf(pair[who])
    IN [pair |-> <<r.it, r.it>>, item |-> r.item]

\* next(&mut self) on iterator `who` of a pair: each iterator owns its fields
NextOfPair(pair, who) ==
    LET r == IteratorNextOf(pair[who])
    IN [pair |-> [pair EXCEPT ![who] = r.it], item |-> r.item]

\* ------------------------------------------------------------------------
\* State
\* ------------------------------------------------------------------------
VARIABLES
    op,            \* the public operation this run exercises
    arch,          \* target_arch of the build: "aarch64" or "other"
    lanes,         \* const N of length::<N>
    points,        \* <<longitudes, latitudes>>, the argument of length
    pc,            \* position inside length
    num_chunks,    \* local of length
    offset,        \* loop variable of the full-batch loop
    total_length,  \* local of length
    result,        \* value returned by length
    loads,         \* element reads done so far: <<sequence 1 or 2, 0-based index>>
    acc,           \* acc[i]: times the distance of pair (i, i+1) was added
    rem,           \* the remainder batch, once executed
    args,          \* the arguments of points_along_line
    it,            \* the LinePointInterpolator
    seq,           \* what next() has returned so far
    build,         \* the features of the build and what came of it
    ruler,         \* the Ruler under use and the constructor that made it
    twin,          \* two iterators made by the same points_along_line call
    call           \* the last call on the ruler or on module atan, with its results

kvars == <<op, arch, lanes, points, pc, num_chunks, offset, total_length,
           result, loads, acc, rem>>
ivars == <<args, it, seq, twin>>
svars == <<build, ruler, call>>

NoResult == "none"
NoRem == [done |-> FALSE]
NoArgs == [start |-> <<0, 0>>, end |-> <<0, 0>>, max_distance |-> 0, include_ends |-> FALSE]
NoIter == [created |-> FALSE, start |-> <<Zero, Zero>>, end |-> <<Zero, Zero>>,
           include_last |-> FALSE, offset |-> Zero, step |-> Zero]
NoTwin == [made |-> FALSE, pair |-> <<NoIter, NoIter>>, out |-> <<<<>>, <<>>>>]
NoBuild == [features |-> {}, status |-> "idle", strategy |-> "none"]
NoRuler == [made |-> FALSE, ctor |-> "none", major |-> 0, minor |-> 0, self |-> RulerWGS84]
NoCall == [name |-> "none"]
\* ret: "unset" before the first next(), then "Some" or "None"
\* calls: parity of the number of next() calls made
\* ratio: the ratio from start of the last point returned (1 for end)
NoSeq == [ret |-> "unset", item |-> NoItem, first |-> NoItem, last |-> NoItem,
          count |-> 0, ends |-> 0, calls |-> 0, ratio |-> Zero]

\* ------------------------------------------------------------------------
\* Inputs
\* ------------------------------------------------------------------------
SupportedLaneCount == {1, 2, 4, 8, 16, 32, 64}
LaneCounts == {l \in SupportedLaneCount : l <= MaxLanes}
Archs == {"aarch64", "other"}
Shapes == {1, 2}

\* vertex i (0-based) of the polyline family `shape`, <<lon, lat>>
Vertex(shape, i) ==
    IF shape = 1 THEN <<-740 + i, 407 + (i % 3)>>
    ELSE <<20 - 2 * i, -600 - ((i * i) % 4)>>

Longitudes(shape, n) == [i \in 1..n |-> Vertex(shape, i - 1)[1]]
Latitudes(shape, n) == [i \in 1..n |-> Vertex(shape, i - 1)[2]]

\* what an out-of-bounds ptr::read may return
Garbage == {0, 900}

\* ------------------------------------------------------------------------
\* simd/src/lib.rs: read, load
\* ------------------------------------------------------------------------
LaneIdx(n) == 0..(n - 1)

\* &s[offset..] panics when offset > s.len()
SliceOk(s, off) == off <= Len(s)

\* load<N>: Simd::load_or_default(&s[offset..])
Load(s, off, n) == [j \in LaneIdx(n) |-> IF off + j < Len(s) THEN s[off + j + 1] ELSE 0]
LoadIdx(s, off, n) == {i \in off..(off + n - 1) : i < Len(s)}

\* read<N>: ptr::read of N elements on aarch64, load elsewhere
Read(a, s, off, n, g) ==
    IF a = "aarch64"
    THEN [j \in LaneIdx(n) |-> IF off + j < Len(s) THEN s[off + j + 1] ELSE g]
    ELSE Load(s, off, n)
ReadIdx(a, s, off, n) ==
    IF a = "aarch64" THEN off..(off + n - 1) ELSE LoadIdx(s, off, n)
ReadOk(a, s, off) == a = "aarch64" \/ SliceOk(s, off)

\* ------------------------------------------------------------------------
\* simd/src/lib.rs: length
\* ------------------------------------------------------------------------
RECURSIVE SumTo(_, _)
SumTo(v, j) == IF j < 0 THEN 0 ELSE v[j] + SumTo(v, j - 1)

\* Simd::reduce_sum
ReduceSum(v, n) == SumTo(v, n - 1)

\* distance<N> over all lanes
DistanceLanes(olon, olat, dlon, dlat, n) ==
    [j \in LaneIdx(n) |-> Distance(<<olon[j], olat[j]>>, <<dlon[j], dlat[j]>>)]

\* the length assertion left out
LengthsMatch_Unchecked(p) == TRUE

\* assert_eq!(points[0].len(), points[1].len())
LengthsMatch(p) == Len(p[1]) = Len(p[2])

\* the short-input return left out
TooShort_Never(n) == FALSE

\* if n < 2 { return 0.0 }
TooShort(n) == n < 2

\* chunks counted over vertices instead of pairs
NumChunks_OverVertices(n, l) == n \div l

\* (n - 1) / N
NumChunks(n, l) == (n - 1) \div l

\* (n - 1) % N
RemainingPairs(n, l) == (n - 1) % l

\* the end of the range stepped through by the full-batch loop: (0..num_chunks)
FullBatchRangeEnd(chunks, l) == chunks

\* the remainder batch placed at the start of the input
RemainderOffset_Start(chunks, l) == 0

\* let offset = num_chunks * N
RemainderOffset(chunks, l) == chunks * l

\* the bitmask without its - 1: only bit remaining_pairs is set
RemainderMask_OneBit(r, l) == [j \in LaneIdx(l) |-> ((2 ^ r) \div (2 ^ j)) % 2 = 1]

\* Mask::from_bitmask((1 << remaining_pairs) - 1): lane j is set iff bit j is
RemainderMask(r, l) == [j \in LaneIdx(l) |-> (((2 ^ r) - 1) \div (2 ^ j)) % 2 = 1]

\* mask.select(v, splat(0.0))
Select(mask, v, l) == [j \in LaneIdx(l) |-> IF mask[j] THEN v[j] ELSE 0]

\* pair indices whose distance sits in the lanes of a batch at `off`
BatchPairs(off, keep, l) == {off + j : j \in {k \in LaneIdx(l) : keep[k]}}
AllLanes(l) == [j \in LaneIdx(l) |-> TRUE]
Bump(a, ps) == [i \in DOMAIN a |-> IF i \in ps THEN a[i] + 1 ELSE a[i]]

KInit ==
    /\ op = "length"
    /\ arch \in Archs
    /\ lanes \in LaneCounts
    /\ \E shape \in Shapes, nlon \in 0..MaxLen, nlat \in 0..MaxLen :
           points = <<Longitudes(shape, nlon), Latitudes(shape, nlat)>>
    /\ pc = "start"
    /\ num_chunks = 0
    /\ offset = 0
    /\ total_length = 0
    /\ result = NoResult
    /\ loads = {}
    /\ acc = [i \in 0..(MaxLen + MaxLanes) |-> 0]
    /\ rem = NoRem
    /\ args = NoArgs /\ it = NoIter /\ seq = NoSeq /\ twin = NoTwin
    /\ build = NoBuild /\ ruler = NoRuler /\ call = NoCall

\* entry: the length assertion, the short-input return, num_chunks
LengthEnter ==
    /\ op = "length" /\ pc = "start"
    /\ LET n == Len(points[1]) IN
       IF ~LengthsMatch(points) THEN
           /\ pc' = "panicked"
           /\ UNCHANGED <<num_chunks, total_length, result>>
       ELSE IF TooShort(n) THEN
           /\ pc' = "done"
           /\ result' = 0
           /\ UNCHANGED <<num_chunks, total_length>>
       ELSE IF n < 1 THEN
           \* n - 1 on usize 0: overflow panic, or a wrapped count whose first
           \* destination load lies outside the slice
           /\ pc' = "panicked"
           /\ UNCHANGED <<num_chunks, total_length, result>>
       ELSE
           /\ pc' = "loop"
           /\ num_chunks' = NumChunks(n, lanes)
           /\ total_length' = 0
           /\ UNCHANGED result
    /\ UNCHANGED <<op, arch, lanes, points, offset, loads, acc, rem>>
    /\ UNCHANGED ivars
    /\ UNCHANGED svars

\* one iteration of: for offset in (0..num_chunks).step_by(N)
LengthFullBatch ==
    /\ op = "length" /\ pc = "loop"
    /\ offset < FullBatchRangeEnd(num_chunks, lanes)
    /\ IF /\ ReadOk(arch, points[1], offset) /\ ReadOk(arch, points[2], offset)
          /\ ReadOk(arch, points[1], 1 + offset) /\ ReadOk(arch, points[2], 1 + offset)
       THEN \E g \in Garbage :
           LET olon == Read(arch, points[1], offset, lanes, g)
               olat == Read(arch, points[2], offset, lanes, g)
               dlon == Read(arch, points[1], 1 + offset, lanes, g)
               dlat == Read(arch, points[2], 1 + offset, lanes, g)
               d == DistanceLanes(olon, olat, dlon, dlat, lanes)
           IN /\ total_length' = total_length + ReduceSum(d, lanes)
              /\ loads' = loads
                    \cup {<<1, i>> : i \in ReadIdx(arch, points[1], offset, lanes)}
                    \cup {<<2, i>> : i \in ReadIdx(arch, points[2], offset, lanes)}
                    \cup {<<1, i>> : i \in ReadIdx(arch, points[1], 1 + offset, lanes)}
                    \cup {<<2, i>> : i \in ReadIdx(arch, points[2], 1 + offset, lanes)}
              /\ acc' = Bump(acc, BatchPairs(offset, AllLanes(lanes), lanes))
              /\ offset' = offset + lanes
              /\ UNCHANGED pc
       ELSE /\ pc' = "panicked"
            /\ UNCHANGED <<total_length, loads, acc, offset>>
    /\ UNCHANGED <<op, arch, lanes, points, num_chunks, result, rem>>
    /\ UNCHANGED ivars
    /\ UNCHANGED svars

\* after the loop: the remainder batch, then the return
LengthFinish ==
    /\ op = "length" /\ pc = "loop"
    /\ ~(offset < FullBatchRangeEnd(num_chunks, lanes))
    /\ LET n == Len(points[1])
           remaining_pairs == RemainingPairs(n, lanes)
           off == RemainderOffset(num_chunks, lanes)
       IN IF remaining_pairs > 0 THEN
              IF /\ SliceOk(points[1], off) /\ SliceOk(points[2], off)
                 /\ SliceOk(points[1], off + 1) /\ SliceOk(points[2], off + 1)
              THEN
                  LET olon == Load(points[1], off, lanes)
                      olat == Load(points[2], off, lanes)
                      dlon == Load(points[1], off + 1, lanes)
                      dlat == Load(points[2], off + 1, lanes)
                      mask == RemainderMask(remaining_pairs, lanes)
                      d == DistanceLanes(olon, olat, dlon, dlat, lanes)
                      sel == Select(mask, d, lanes)
                  IN /\ total_length' = total_length + ReduceSum(sel, lanes)
                     /\ result' = total_length + ReduceSum(sel, lanes)
                     /\ loads' = loads
                           \cup {<<1, i>> : i \in LoadIdx(points[1], off, lanes)}
                           \cup {<<2, i>> : i \in LoadIdx(points[2], off, lanes)}
                           \cup {<<1, i>> : i \in LoadIdx(points[1], off + 1, lanes)}
                           \cup {<<2, i>> : i \in LoadIdx(points[2], off + 1, lanes)}
                     /\ acc' = Bump(acc, BatchPairs(off, mask, lanes))
                     /\ rem' = [done |-> TRUE, offset |-> off, r |-> remaining_pairs,
                                before |-> total_length,
                                olon |-> olon, olat |-> olat, dlon |-> dlon,
                                dlat |-> dlat, raw |-> d, sel |-> sel]
                     /\ pc' = "done"
              ELSE /\ pc' = "panicked"
                   /\ UNCHANGED <<total_length, result, loads, acc, rem>>
          ELSE /\ pc' = "done"
               /\ result' = total_length
               /\ UNCHANGED <<total_length, loads, acc, rem>>
    /\ UNCHANGED <<op, arch, lanes, points, num_chunks, offset>>
    /\ UNCHANGED ivars
    /\ UNCHANGED svars

\* ------------------------------------------------------------------------
\* points_along_line and the calls of next()
\* ------------------------------------------------------------------------
LinePoints == {<<-740, 407>>, <<-739, 407>>, <<-740, 409>>, <<-738, 408>>}
MaxDistances == {-300, 0, 300, 500, 1000, 5000}

IInit ==
    /\ op = "points_along_line"
    /\ arch = "other" /\ lanes = 1 /\ points = <<<<>>, <<>>>>
    /\ pc = "idle" /\ num_chunks = 0 /\ offset = 0 /\ total_length = 0
    /\ result = NoResult /\ loads = {} /\ rem = NoRem
    /\ acc = [i \in 0..(MaxLen + MaxLanes) |-> 0]
    /\ \E s \in LinePoints, e \in LinePoints, m \in MaxDistances, b \in BOOLEAN :
           args = [start |-> s, end |-> e, max_distance |-> m, include_ends |-> b]
    /\ it = NoIter
    /\ seq = NoSeq /\ twin = NoTwin
    /\ build = NoBuild /\ ruler = NoRuler /\ call = NoCall

\* the call of points_along_line
PointsAlongLine ==
    /\ op = "points_along_line" /\ ~it.created
    /\ it' = PointsAlongLineOf(args.start, args.end, args.max_distance, args.include_ends)
    /\ UNCHANGED <<args, seq, twin>>
    /\ UNCHANGED kvars
    /\ UNCHANGED svars

\* LinePointInterpolator::<f32>::new, as points_along_line calls it when
\* max_distance / distance rounds to step
F32Steps == {13421772, 13421773, 33554432, 44739243, 67108864, 134217728, 201326592}

FInit ==
    /\ op = "interpolator_f32"
    /\ arch = "other" /\ lanes = 1 /\ points = <<<<>>, <<>>>>
    /\ pc = "idle" /\ num_chunks = 0 /\ offset = 0 /\ total_length = 0
    /\ result = NoResult /\ loads = {} /\ rem = NoRem
    /\ acc = [i \in 0..(MaxLen + MaxLanes) |-> 0]
    /\ \E b \in BOOLEAN :
           args = [start |-> <<0, 0>>, end |-> <<1, 2>>, max_distance |-> 0,
                   include_ends |-> b]
    /\ it = NoIter
    /\ seq = NoSeq /\ twin = NoTwin
    /\ build = NoBuild /\ ruler = NoRuler /\ call = NoCall

InterpolatorNewF32 ==
    /\ op = "interpolator_f32" /\ ~it.created
    /\ \E step \in F32Steps :
           it' = LinePointInterpolatorNew(FPoint(args.start), FPoint(args.end),
                                          F32(step), args.include_ends)
    /\ UNCHANGED <<args, seq, twin>>
    /\ UNCHANGED kvars
    /\ UNCHANGED svars

\* one call of next(); seq.count stops counting at MaxYield, and a run whose
\* offset keeps decreasing is cut after MaxYield points
IteratorNext ==
    /\ op \in {"points_along_line", "interpolator_f32"} /\ it.created
    /\ FLt[FAdd[it.offset, it.step], it.offset] => seq.count < MaxYield
    /\ \E r \in {IteratorNextOf(it)} :
       /\ it' = r.it
       /\ seq' = IF r.item.some
                 THEN [ret |-> "Some", item |-> r.item,
                       first |-> IF seq.count = 0 THEN r.item ELSE seq.first,
                       last |-> r.item,
                       count |-> Min(seq.count + 1, MaxYield),
                       ends |-> IF r.item.kind = "end" THEN seq.ends + 1 ELSE seq.ends,
                       calls |-> 1 - seq.calls,
                       ratio |-> IF r.item.kind = "end" THEN One ELSE it.offset]
                 ELSE [seq EXCEPT !.ret = "None", !.item = NoItem, !.calls = 1 - seq.calls]
    /\ UNCHANGED <<args, twin>>
    /\ UNCHANGED kvars
    /\ UNCHANGED svars

\* two iterators for the same arguments, consumed in any interleaving
TInit ==
    /\ op = "twin"
    /\ arch = "other" /\ lanes = 1 /\ points = <<<<>>, <<>>>>
    /\ pc = "idle" /\ num_chunks = 0 /\ offset = 0 /\ total_length = 0
    /\ result = NoResult /\ loads = {} /\ rem = NoRem
    /\ acc = [i \in 0..(MaxLen + MaxLanes) |-> 0]
    /\ \E e \in LinePoints, m \in MaxDistances, b \in BOOLEAN :
           args = [start |-> <<-740, 407>>, end |-> e, max_distance |-> m,
                   include_ends |-> b]
    /\ it = NoIter /\ seq = NoSeq /\ twin = NoTwin
    /\ build = NoBuild /\ ruler = NoRuler /\ call = NoCall

\* points_along_line called twice with the same arguments
TwinCreate ==
    /\ op = "twin" /\ ~twin.made
    /\ twin' = [made |-> TRUE,
                pair |-> <<PointsAlongLineOf(args.start, args.end, args.max_distance,
                                             args.include_ends),
                           PointsAlongLineOf(args.start, args.end, args.max_distance,
                                             args.include_ends)>>,
                out |-> <<<<>>, <<>>>>]
    /\ UNCHANGED <<args, it, seq>>
    /\ UNCHANGED kvars
    /\ UNCHANGED svars

\* next() on one of the two; out[who] is what it has returned so far
TwinNext ==
    /\ op = "twin" /\ twin.made
    /\ \E who \in {1, 2} :
        /\ Len(twin.out[who]) < MaxYield
        /\ \E r \in {NextOfPair(twin.pair, who)} :
               twin' = [made |-> TRUE, pair |-> r.pair,
                        out |-> [twin.out EXCEPT ![who] = Append(@, r.item)]]
    /\ UNCHANGED <<args, it, seq>>
    /\ UNCHANGED kvars
    /\ UNCHANGED svars

\* ------------------------------------------------------------------------
\* The crate built with some features, a Ruler constructed, and calls of
\* distance, bearing, destination and of the atan2 of module atan
\* ------------------------------------------------------------------------
Majors == {0, 3376, 3396, 6378}
Minors == {0, 3376, 3396, 6357}
ScalarPoints == {<<-740, 407>>, <<-741, 407>>, <<-740, 409>>, <<-738, 405>>, <<-741, 406>>}
AtanOperands == {-1000, -577, -7, -1, 0, 1, 3, 414, 1000}
EmpireState == <<-73985700, 40748400>>
Bearings == {b \in 0..359 : b % 15 = 0 \/ b \in {1, 359}}
TripDistances == {1000, 3210, 9990, 10000}

RInit ==
    /\ op = "ruler"
    /\ arch = "other" /\ lanes = 1 /\ points = <<<<>>, <<>>>>
    /\ pc = "idle" /\ num_chunks = 0 /\ offset = 0 /\ total_length = 0
    /\ result = NoResult /\ loads = {} /\ rem = NoRem
    /\ acc = [i \in 0..(MaxLen + MaxLanes) |-> 0]
    /\ args = NoArgs /\ it = NoIter /\ seq = NoSeq /\ twin = NoTwin
    /\ \E f \in SUBSET Features :
           build = [features |-> f, status |-> "config", strategy |-> "none"]
    /\ ruler = NoRuler
    /\ call = NoCall

\* cargo build: build.rs, then the cfg attributes
Build ==
    /\ op = "ruler" /\ build.status = "config"
    /\ build' = [build EXCEPT !.status = BuildScript(build.features),
                              !.strategy = IF BuildScript(build.features) = "built"
                                           THEN Strategy(build.features) ELSE "none"]
    /\ UNCHANGED <<ruler, call>>
    /\ UNCHANGED kvars
    /\ UNCHANGED ivars

\* Ruler::WGS84, Ruler::default() or Ruler::new(major, minor)
RulerConstruct ==
    /\ op = "ruler" /\ build.status = "built" /\ ~ruler.made
    /\ \/ ruler' = [made |-> TRUE, ctor |-> "WGS84", major |-> 0, minor |-> 0,
                     self |-> RulerWGS84]
       \/ ruler' = [made |-> TRUE, ctor |-> "default", major |-> 0, minor |-> 0,
                     self |-> RulerDefault]
       \/ \E major \in Majors, minor \in Minors :
              ruler' = [made |-> TRUE, ctor |-> "new", major |-> major, minor |-> minor,
                        self |-> RulerNew(major, minor)]
    /\ UNCHANGED <<build, call>>
    /\ UNCHANGED kvars
    /\ UNCHANGED ivars

\* the calls below are made on the WGS84 ruler, as the tests make them
CanCall == op = "ruler" /\ ruler.made /\ ruler.self = RulerWGS84

\* a run makes one test: the operations take &self and their arguments by
\* value, so a call has nothing to pass on to the next
Fresh == call = NoCall

\* distance(a, b) and distance(b, a)
DistanceCall ==
    /\ CanCall /\ Fresh
    /\ \E a \in ScalarPoints, b \in ScalarPoints :
           call' = [name |-> "distance", a |-> a, b |-> b,
                    d |-> RulerDistance(a, b), rev |-> RulerDistance(b, a)]
    /\ UNCHANGED <<build, ruler>>
    /\ UNCHANGED kvars
    /\ UNCHANGED ivars

\* bearing(a, b)
BearingCall ==
    /\ CanCall /\ Fresh
    /\ \E a \in ScalarPoints, b \in ScalarPoints :
           call' = [name |-> "bearing", a |-> a, b |-> b,
                    brg |-> RulerBearing(build.strategy, a, b)]
    /\ UNCHANGED <<build, ruler>>
    /\ UNCHANGED kvars
    /\ UNCHANGED ivars

\* destination(empire_state, bearing, distance)
TripDestination ==
    /\ CanCall /\ Fresh
    /\ \E b \in Bearings, d \in TripDistances :
           call' = [name |-> "trip", stage |-> 1, bearing |-> b, distance |-> d,
                    destination |-> RulerDestination(EmpireState, b, d)]
    /\ UNCHANGED <<build, ruler>>
    /\ UNCHANGED kvars
    /\ UNCHANGED ivars

\* distance(empire_state, destination) and distance(destination, empire_state)
TripDistance ==
    /\ CanCall /\ call.name = "trip" /\ call.stage = 1
    /\ call' = [name |-> "trip", stage |-> 2,
                bearing |-> call.bearing, distance |-> call.distance,
                destination |-> call.destination,
                out |-> RulerDistanceU(EmpireState, call.destination),
                rev |-> RulerDistanceU(call.destination, EmpireState)]
    /\ UNCHANGED <<build, ruler>>
    /\ UNCHANGED kvars
    /\ UNCHANGED ivars

\* destination(destination, inverse_bearing, distance), and the distance
\* from the point reached to destination
TripBack ==
    /\ CanCall /\ call.name = "trip" /\ call.stage = 2
    /\ \E origin \in {RulerDestination(call.destination,
                                        (call.bearing + 180) % 360, call.distance)} :
           call' = [name |-> "trip", stage |-> 3,
                    bearing |-> call.bearing, distance |-> call.distance,
                    destination |-> call.destination,
                    out |-> call.out, rev |-> call.rev,
                    origin |-> origin,
                    back |-> RulerDistanceU(origin, call.destination)]
    /\ UNCHANGED <<build, ruler>>
    /\ UNCHANGED kvars
    /\ UNCHANGED ivars

\* atan2(y, x) of module atan, which exists when a feature is enabled
AtanCall ==
    /\ op = "ruler" /\ build.strategy \in {"deg3", "deg5"}
    /\ ~ruler.made /\ Fresh
    /\ \E y \in AtanOperands, x \in AtanOperands :
           call' = [name |-> "atan2", y |-> y, x |-> x,
                    res |-> Atan2Of(build.strategy, y, x)]
    /\ UNCHANGED <<build, ruler>>
    /\ UNCHANGED kvars
    /\ UNCHANGED ivars

\* point_at_distance_between(start, end, distance), and bearing(start, end)
PointAtDistanceCall ==
    /\ CanCall /\ Fresh
    /\ \E start \in ScalarPoints, end \in ScalarPoints, distance \in TripDistances :
           call' = [name |-> "along", start |-> start, end |-> end,
                    distance |-> distance,
                    p |-> PointAtDistanceBetween(build.strategy, start, end, distance),
                    brg |-> RulerBearing(build.strategy, start, end)]
    /\ UNCHANGED <<build, ruler>>
    /\ UNCHANGED kvars
    /\ UNCHANGED ivars

Ratios == {Fin(-1, 2), Zero, Fin(3, 20), Fin(1, 2), One, Fin(3, 2), PosInf, NaN}

\* point_at_ratio_between(start, end, ratio) on any ruler
RatioCall ==
    /\ op = "ruler" /\ ruler.made /\ Fresh
    /\ \E start \in ScalarPoints, end \in ScalarPoints, ratio \in Ratios :
           call' = [name |-> "ratio", start |-> start, end |-> end, ratio |-> ratio,
                    p |-> PointAtRatioBetween(FPoint(start), FPoint(end), ratio)]
    /\ UNCHANGED <<build, ruler>>
    /\ UNCHANGED kvars
    /\ UNCHANGED ivars

\* ------------------------------------------------------------------------
\* simd/src/lib.rs: cos and coefs called on their own
\* ------------------------------------------------------------------------
CosAngles == {-62832, -54978, -47125, -47123, -39270, -31417, -31415, -23562,
              -15709, -15707, -7854, -1, 0, 1, 7854, 15707, 15709, 23562, 31415,
              31417, 39270, 47123, 47125, 54978, 62832}
CoefLatitudes == {-900, -600, -407, -1, 0, 1, 407, 600, 899, 900}

MInit ==
    /\ op = "kernel_math"
    /\ arch \in Archs /\ lanes \in LaneCounts /\ points = <<<<>>, <<>>>>
    /\ pc = "idle" /\ num_chunks = 0 /\ offset = 0 /\ total_length = 0
    /\ result = NoResult /\ loads = {} /\ rem = NoRem
    /\ acc = [i \in 0..(MaxLen + MaxLanes) |-> 0]
    /\ args = NoArgs /\ it = NoIter /\ seq = NoSeq /\ twin = NoTwin
    /\ build = NoBuild /\ ruler = NoRuler /\ call = NoCall

\* cos(x) on a lane
CosCall ==
    /\ op = "kernel_math" /\ Fresh
    /\ \E x \in CosAngles :
           call' = [name |-> "cos", x |-> x, arg |-> CosReduce(x).x, res |-> Cos(x)]
    /\ UNCHANGED <<build, ruler>>
    /\ UNCHANGED kvars
    /\ UNCHANGED ivars

\* coefs(lat) on a lane
CoefsCall ==
    /\ op = "kernel_math" /\ Fresh
    /\ \E lat \in CoefLatitudes :
           call' = [name |-> "coefs", lat |-> lat, c |-> Cos(ToRadians(lat)),
                    k |-> Coefs(lat)]
    /\ UNCHANGED <<build, ruler>>
    /\ UNCHANGED kvars
    /\ UNCHANGED ivars

Init == KInit \/ IInit \/ FInit \/ TInit \/ RInit \/ MInit

Next ==
    \/ LengthEnter
    \/ LengthFullBatch
    \/ LengthFinish
    \/ PointsAlongLine
    \/ InterpolatorNewF32
    \/ IteratorNext
    \/ TwinCreate
    \/ TwinNext
    \/ Build
    \/ RulerConstruct
    \/ DistanceCall
    \/ BearingCall
    \/ TripDestination
    \/ TripDistance
    \/ TripBack
    \/ AtanCall
    \/ RatioCall
    \/ PointAtDistanceCall
    \/ CosCall
    \/ CoefsCall

vars == <<op, arch, lanes, points, pc, num_chunks, offset, total_length,
          result, loads, acc, rem, args, it, seq, twin, build, ruler, call>>

Spec == Init /\ [][Next]_vars

\* a consumer (collect, for) keeps calling next() until it sees None
FairSpec == Spec /\ WF_vars(IteratorNext)

\* ------------------------------------------------------------------------
\* Properties of length
\* ------------------------------------------------------------------------
NLon == Len(points[1])
NLat == Len(points[2])
Returned == op = "length" /\ pc = "done"

\* vertex i (0-based) of the input
InputVertex(i) == <<points[1][i + 1], points[2][i + 1]>>

\* C1: when length returns for n >= 2 vertices, the distance of every
\* consecutive pair (i, i+1), 0 <= i <= n-2, has been added exactly once.
C1_EveryPairOnce ==
    (Returned /\ NLon = NLat /\ NLon >= 2) =>
        \A i \in 0..(NLon - 2) : acc[i] = 1

\* C2: no load reads an element index >= n of either input, and the lanes of
\* the remainder batch that lie past the end hold 0.
C2_LoadsInBounds ==
    op = "length" =>
        /\ \A l \in loads : l[2] < Len(points[l[1]])
        /\ rem.done =>
              \A j \in LaneIdx(lanes) :
                  /\ rem.offset + j >= NLon => rem.olon[j] = 0 /\ rem.olat[j] = 0
                  /\ rem.offset + 1 + j >= NLon => rem.dlon[j] = 0 /\ rem.dlat[j] = 0

\* C2 witness: a run on the raw-pointer build with a full batch and a padded
\* remainder batch behind it
C2_Witness ==
    /\ Returned /\ arch = "aarch64" /\ offset > 0 /\ loads # {}
    /\ rem.done /\ rem.offset + lanes > NLon

RECURSIVE ScalarLengthTo(_)
ScalarLengthTo(i) ==
    IF i < 1 THEN 0
    ELSE RulerDistance(InputVertex(i - 1), InputVertex(i)) + ScalarLengthTo(i - 1)

\* the reference of tests/length.rs: the sum of ruler.distance over the pairs
ScalarLength == ScalarLengthTo(NLon - 1)

\* approx::relative_eq with max_relative = 0.01
RelativeEq(a, b) == a = b \/ 100 * Abs(a - b) <= Max(Abs(a), Abs(b))

\* C3: the value returned by length is within 1% relative error of the sum
\* of the scalar distances of the consecutive pairs.
C3_WithinOnePercent ==
    (Returned /\ NLon = NLat) => RelativeEq(result, ScalarLength)

\* C4: with sequences of different lengths the call panics, having loaded
\* nothing and returned nothing.
C4_MismatchFailsFast ==
    (op = "length" /\ NLon # NLat /\ pc # "start") =>
        pc = "panicked" /\ loads = {} /\ result = NoResult

C4_Witness == op = "length" /\ NLon # NLat /\ NLon >= 2 /\ NLat >= 1 /\ pc = "panicked"

\* C5: for 0 or 1 vertices length returns 0 without any load, whatever the
\* lane width.
C5_ShortInputIsZero ==
    (op = "length" /\ NLon = NLat /\ NLon < 2 /\ pc # "start") =>
        pc = "done" /\ result = 0 /\ loads = {}

C5_Witness == Returned /\ NLon = 0 /\ NLat = 0 /\ result = 0 /\ lanes > 1

\* C6: the remainder batch sits at offset floor((n-1)/L)*L, its lanes below
\* r = (n-1) mod L hold the last r pairs and add their distances, and every
\* lane from r on is 0 in the vector that is summed.
C6_RemainderBatch ==
    (op = "length" /\ rem.done) =>
        LET r == (NLon - 1) % lanes
            off == ((NLon - 1) \div lanes) * lanes
            pairDist == [j \in LaneIdx(lanes) |->
                            IF j < r THEN Distance(InputVertex(off + j), InputVertex(off + j + 1))
                            ELSE 0]
        IN /\ r > 0 /\ rem.r = r /\ rem.offset = off /\ off + r = NLon - 1
           /\ \A j \in LaneIdx(lanes) :
                 /\ j < r => /\ <<rem.olon[j], rem.olat[j]>> = InputVertex(off + j)
                             /\ <<rem.dlon[j], rem.dlat[j]>> = InputVertex(off + j + 1)
                 /\ rem.sel[j] = pairDist[j]
           /\ result = rem.before + ReduceSum(pairDist, lanes)

\* C6 witness: a padded lane in which a non-zero distance was computed
C6_Witness ==
    /\ Returned /\ rem.done
    /\ \E j \in LaneIdx(lanes) : j >= rem.r /\ rem.raw[j] # 0 /\ rem.sel[j] = 0
    /\ \E j \in LaneIdx(lanes) : j < rem.r /\ rem.sel[j] # 0

\* ------------------------------------------------------------------------
\* Properties of points_along_line
\* ------------------------------------------------------------------------
Iterating == op = "points_along_line" /\ it.created
Exhausted == Iterating /\ seq.ret = "None"

\* C7: whatever start, end, maxDistance and includeEnds are, the iterator
\* returns None after finitely many next() calls.
C7_Finite == [](Iterating => <>Exhausted)

\* C8: when distance(start, end) is 0 the step of the iterator is finite and
\* at most one point is yielded.
C8_ZeroDistanceGuarded ==
    (Iterating /\ RulerDistance(args.start, args.end) = 0) =>
        it.step.k = "fin" /\ seq.count <= 1

\* C9: once the offset is not below 1, a next() call yields end if
\* include_last is set (clearing it, so end is yielded once and only when
\* includeEnds was true) and returns None otherwise, without moving the
\* offset; once None has been returned nothing but None is returned.
C9_EndOnceThenNone ==
    [][ /\ (Iterating /\ ~FLt[it.offset, One]) =>
              /\ it'.offset = it.offset
              /\ it.include_last =>
                    /\ args.include_ends /\ seq.ends = 0
                    /\ seq'.ret = "Some" /\ seq'.item = SomeItem(FPoint(args.end), "end")
                    /\ seq'.ends = 1 /\ ~it'.include_last
              /\ ~it.include_last =>
                    /\ seq'.ret = "None" /\ seq'.count = seq.count
                    /\ seq'.ends = (IF args.include_ends THEN 1 ELSE 0)
        /\ Exhausted => seq'.ret = "None" /\ seq'.count = seq.count
        /\ seq'.ends > seq.ends => ~FLt[it.offset, One]
      ]_vars

\* C9 witness: end was yielded after interpolated points, then None
C9_Witness ==
    /\ Exhausted /\ args.include_ends /\ seq.ends = 1 /\ seq.count >= 4
    /\ seq.last = SomeItem(FPoint(args.end), "end")

\* C10: with includeEnds = true and maxDistance > 0 the sequence is not
\* empty, its first element is start and its last element is end (the run
\* reaches its end within MaxYield points).
C10_EndsIncluded ==
    (Iterating /\ args.include_ends /\ args.max_distance > 0) =>
        /\ seq.count >= 1 => seq.first.some /\ seq.first.p = FPoint(args.start)
        /\ FLt[it.offset, One] => seq.count < MaxYield
        /\ seq.ret = "None" =>
              /\ seq.count >= 1
              /\ seq.last.some /\ seq.last.p = FPoint(args.end)

\* C10 witness: a finished run with interpolated points between distinct ends
C10_Witness ==
    /\ Exhausted /\ args.include_ends /\ args.max_distance > 0
    /\ args.start # args.end /\ seq.count >= 4
    /\ seq.first.p = FPoint(args.start) /\ seq.last.p = FPoint(args.end)

KthRatio(first, step, k) ==
    IF k = 0 THEN first ELSE FAdd[first, FMul[Fin(k, 1), step]]

C14_BearingNormalized ==
    (op = "ruler" /\ call.name = "bearing") =>
        /\ ~call.brg.nan
        /\ 0 <= call.brg.v /\ call.brg.v < 360 * MDEG

\* C15: for (y, x) /= (0, 0) both polynomial tiers return an angle in the
\* range exact atan2 has in the quadrant of (y, x), the axes included.
C15_SameQuadrant ==
    (op = "ruler" /\ call.name = "atan2" /\ <<call.y, call.x>> # <<0, 0>>) =>
        /\ ~call.res.nan
        /\ (call.x >= 0 /\ call.y >= 0) => 0 <= call.res.v /\ call.res.v <= FRAC_PI_2
        /\ (call.x < 0 /\ call.y >= 0) => FRAC_PI_2 <= call.res.v /\ call.res.v <= PI_A
        /\ (call.x >= 0 /\ call.y < 0) => -FRAC_PI_2 <= call.res.v /\ call.res.v <= 0
        /\ (call.x < 0 /\ call.y < 0) => -PI_A <= call.res.v /\ call.res.v <= -FRAC_PI_2

\* C16: at (0, 0) neither tier returns a non-finite value (none divides 0 by 0).
C16_FiniteAtOrigin ==
    (op = "ruler" /\ call.name = "atan2" /\ call.y = 0 /\ call.x = 0) => ~call.res.nan

C18_RulerInvariant ==
    [][ /\ ruler'.made =>
              /\ ~FLt[ruler'.self.e2, Zero] /\ FLt[ruler'.self.e2, One]
              /\ (ruler'.ctor = "new" /\ ruler'.major # 0) =>
                    ruler'.self.e2 = FSub[One, FMul[Fin(ruler'.minor, ruler'.major),
                                                    Fin(ruler'.minor, ruler'.major)]]
        /\ ruler.made => ruler'.self = ruler.self
      ]_vars

\* C19: distance(a, b) = distance(b, a).
C19_DistanceSymmetric ==
    /\ (op = "ruler" /\ call.name = "distance") => call.d = call.rev
    /\ (op = "ruler" /\ call.name = "trip" /\ call.stage >= 2) => call.out = call.rev

\* C19 witness: a distance between points that differ in both coordinates
C19_Witness ==
    /\ op = "ruler" /\ call.name = "distance"
    /\ call.a[1] # call.b[1] /\ call.a[2] # call.b[2]
    /\ call.d > 0 /\ call.d = call.rev

\* the relative error the tests accept: |x - d| / d < 0.01
WithinRelativeError(x, d) == 100 * Abs(x - d) < d

\* C20: for a distance d of 100 to 1000 m and a bearing b in [0, 360) from
\* the fixed origin, distance(origin, destination(origin, b, d)) is within
\* 1% of d, and the point reached from that destination with the bearing
\* (b + 180) mod 360 and the distance d is within 1% of d from it.
C20_RoundTrip ==
    (op = "ruler" /\ call.name = "trip") =>
        /\ call.stage >= 2 => WithinRelativeError(call.out, call.distance)
        /\ call.stage = 3 => WithinRelativeError(call.back, call.distance)

\* C20 witness: a finished round trip along a bearing off the axes
C20_Witness ==
    /\ op = "ruler" /\ call.name = "trip" /\ call.stage = 3
    /\ call.bearing = 225 /\ call.distance = 3210
    /\ call.destination[1] < EmpireState[1] /\ call.destination[2] < EmpireState[2]
    /\ call.origin # call.destination
    /\ WithinRelativeError(call.back, call.distance)

\* C21: for (x, y) in [-1000, 1000]^2 other than (0, 0) the polynomial tier
\* in use differs from exact atan2 of the same operands by at most 0.1 rad,
\* or by at most 0.1 of the larger of the two magnitudes.
C21_WithinTierBound ==
    (op = "ruler" /\ call.name = "atan2" /\ <<call.y, call.x>> # <<0, 0>>) =>
        LET exact == StdAtan2(call.y, call.x).v
            err == Abs(call.res.v - exact)
        IN /\ ~call.res.nan
           /\ \/ 10 * err <= AS
              \/ 10 * err <= Max(Abs(call.res.v), Abs(exact))

\* C21 witness: a result of the 5th-degree tier off the axes that is not the
\* exact angle
C21_Witness ==
    /\ op = "ruler" /\ call.name = "atan2" /\ build.strategy = "deg5"
    /\ call.y = 414 /\ call.x = -577
    /\ ~call.res.nan
    /\ Abs(call.res.v - StdAtan2(call.y, call.x).v) > 100
    /\ 10 * Abs(call.res.v - StdAtan2(call.y, call.x).v) <= AS

\* the sign of the cosine of x (1/FP radian, |x| <= 2 pi), 0 within one
\* unit of a zero of the cosine
CosSign(x) ==
    LET y == Abs(x)
        half == PI_FP \div 2
    IN IF y < half - 1 \/ y > 3 * half + 1 THEN 1
       ELSE IF y > half + 1 /\ y < 3 * half - 1 THEN -1
       ELSE 0

\* C22: for every x in [-2 pi, 2 pi] the kernel's cos has the sign of
\* cos(x); for every latitude in [-90, 90] degrees it is not negative, and
\* neither is the longitude coefficient kx.
C22_CosSign ==
    /\ (op = "kernel_math" /\ call.name = "cos") =>
          /\ CosSign(call.x) = 1 => call.res > 0
          /\ CosSign(call.x) = -1 => call.res < 0
    /\ (op = "kernel_math" /\ call.name = "coefs") =>
          call.c >= 0 /\ call.k[1] >= 0

\* C26: for every x in [-2 pi, 2 pi] the range reduction of the kernel's cos
\* hands the polynomial an argument in [0, pi/2].
C26_ReducedArgument ==
    (op = "kernel_math" /\ call.name = "cos") =>
        0 <= call.arg /\ call.arg <= PI_FP \div 2

\* C26 witness: an angle that takes all three steps of the reduction
C26_Witness ==
    /\ op = "kernel_math" /\ call.name = "cos"
    /\ call.x = -7854 /\ call.arg = 7854

C24_DestinationAlongBearing ==
    (op = "ruler" /\ call.name = "along") =>
        /\ call.p.nan = call.brg.nan
        /\ ~call.brg.nan =>
              call.p.p = RulerDestination(ToU(call.start),
                             ((call.brg.v + MDEG \div 2) \div MDEG) % 360, call.distance)

\* C24 witness: a point towards the south-west, 999 m from start
C24_Witness ==
    /\ op = "ruler" /\ call.name = "along" /\ build.strategy = "deg3"
    /\ call.start = <<-740, 407>> /\ call.end = <<-741, 406>> /\ call.distance = 9990
    /\ ~call.p.nan /\ call.brg.v < -90 * MDEG
    /\ call.p.p[1] < ToU(call.start)[1] /\ call.p.p[2] < ToU(call.start)[2]

\* C25: the batch kernel derives the coefficients of a pair from the same
\* latitude as scalar distance and bearing do, the mean of the pair's two
\* latitudes.
C25_SameReferenceLatitude ==
    (op = "length" /\ Len(points[1]) = Len(points[2])) =>
        \A i \in 1..(Len(points[2]) - 1) :
            acc[i - 1] > 0 =>
                2 * DistanceLatitude(<<points[1][i], points[2][i]>>,
                                     <<points[1][i + 1], points[2][i + 1]>>)
                    = CoefsAvgLat2(points[2][i], points[2][i + 1])

\* C28: for every lane width and every n, no pair index is accumulated
\* twice: the ranges of two full batches are disjoint, and the range of the
\* remainder batch is disjoint from that of every full batch.
C28_NoPairTwice ==
    op = "length" => \A i \in DOMAIN acc : acc[i] <= 1

\* C28 witness: two full batches and a remainder batch, each pair they
\* cover accumulated once
C28_Witness ==
    /\ Returned /\ lanes = 2 /\ num_chunks >= 3 /\ rem.done
    /\ acc[0] = 1 /\ acc[1] = 1 /\ acc[2] = 1 /\ acc[3] = 1
    /\ rem.offset > 3 /\ acc[rem.offset] = 1

\* C29: for a finite step s > 0 the sequence has ceil(1/s) + 1 points with
\* includeEnds and ceil(1/s) - 1 without; for s >= 1 it is [start, end] with
\* includeEnds and empty without.
C29_PointCount ==
    (/\ op \in {"points_along_line", "interpolator_f32"} /\ it.created
     /\ it.step.k \in {"fin", "f32"} /\ it.step.n > 0) =>
        LET s == AsFin(it.step)
            c == (s.d + s.n - 1) \div s.n
            expected == IF args.include_ends THEN c + 1 ELSE c - 1
        IN /\ expected < MaxYield =>
                 /\ seq.count <= expected
                 /\ seq.ret = "None" => seq.count = expected
           /\ (s.n >= s.d /\ seq.ret = "None") =>
                 IF args.include_ends
                 THEN /\ seq.count = 2
                      /\ seq.first = SomeItem(FPoint(args.start), "interp")
                      /\ seq.last = SomeItem(FPoint(args.end), "end")
                 ELSE seq.count = 0

\* C30: a next() call never changes start, end or step; it changes offset
\* only when offset < 1 held before it, by adding step, and then it yields
\* an interpolated point; it changes include_last only from true to false,
\* in the one call that yields end.
C30_NextFrame ==
    [][ (op \in {"points_along_line", "interpolator_f32"} /\ it.created) =>
          /\ it'.created
          /\ it'.start = it.start /\ it'.end = it.end /\ it'.step = it.step
          /\ it'.offset # it.offset =>
                /\ FLt[it.offset, One]
                /\ it'.offset = FAdd[it.offset, it.step]
                /\ seq'.ret = "Some" /\ seq'.item.kind = "interp"
          /\ it'.include_last # it.include_last =>
                /\ it.include_last /\ ~it'.include_last
                /\ seq'.ret = "Some" /\ seq'.item.kind = "end"
                /\ seq.ends = 0 /\ seq'.ends = 1
          /\ seq'.ends > seq.ends => it.include_last /\ ~it'.include_last
      ]_vars

\* C30 witness: ten interpolated points, then end, and the flag cleared
C30_Witness ==
    /\ op = "interpolator_f32" /\ it.created /\ args.include_ends
    /\ seq.count = 11 /\ seq.ends = 1 /\ ~it.include_last
    /\ it.offset = F32(2 ^ 27) /\ it.step = F32(13421772)

\* C27: no operation changes the ruler or its input buffers, and two
\* iterators made by points_along_line for the same arguments return the
\* same sequence whatever the interleaving of their next() calls.
C27_NoSharedState ==
    [][ /\ points' = points /\ args' = args
        /\ ruler.made => ruler' = ruler
        /\ (op' = "twin" /\ twin'.made) =>
              \A k \in 1..Min(Len(twin'.out[1]), Len(twin'.out[2])) :
                  twin'.out[1][k] = twin'.out[2][k]
      ]_vars

\* C27 witness: the first iterator two calls ahead of the second, both
\* having returned the same second point
C27_Witness ==
    /\ op = "twin" /\ twin.made
    /\ Len(twin.out[1]) = 4 /\ Len(twin.out[2]) = 2
    /\ twin.out[1][2].kind = "interp" /\ twin.out[1][4].kind = "interp"
    /\ twin.out[2][2] = twin.out[1][2]
    /\ twin.pair[1].offset # twin.pair[2].offset

====
